---- MODULE Spec2Model ----
(***************************************************************************)
(* Light_spot_analysis.py: the classes ConfigLoader, ImageProcessor and    *)
(* TestManager, and the script body under `if __name__ == "__main__"`.     *)
(*                                                                         *)
(* SpecMain is the script run as a program; SpecConfig, SpecImage and     *)
(* SpecCompare are the classes called by code that imports the module.     *)
(*                                                                         *)
(* Numbers are fixed-point integers in units of 0.001 (12.0 is 12000);     *)
(* np.std and np.var results are rounded down to that unit.                *)
(* Python values are tagged records [kind, val]; an attribute that was     *)
(* never assigned is the value Unset (reading it raises AttributeError).   *)
(***************************************************************************)
EXTENDS Integers, Sequences, FiniteSets, TLC

\* Bounds of the enumerated images: widths 1..MaxW, heights 1..MaxH.
MaxW == 2
MaxH == 2

-----------------------------------------------------------------------------
(* Python values *)

PyVal(k, v) == [kind |-> k, val |-> v]
None == PyVal("None", 0)
Unset == PyVal("unset", 0)
Num(n) == PyVal("num", n)
Bool(b) == PyVal("bool", b)
List(s) == PyVal("list", s)
Dict(f) == PyVal("dict", f)
EmptyDict == Dict([k \in {} |-> None])

\* The outcome of a call: it returns a value or raises an exception.
Returns(v) == [raised |-> "none", value |-> v]
Raises(e) == [raised |-> e, value |-> None]

\* dict.get(key, default)
DictGet(d, key, default) == IF key \in DOMAIN d.val THEN d.val[key] ELSE default

Abs(n) == IF n < 0 THEN -n ELSE n

-----------------------------------------------------------------------------
(* TestManager: np.isclose(expected, actual, atol=0.01) and the three tests *)

\* atol=0.01 in units of 0.001
Atol == 10
\* numpy's default rtol=1e-05: the relative term is |b| / RtolInverse
RtolInverse == 100000

\* Scalar case of np.isclose(a, b, atol=0.01): |a - b| <= atol + rtol * |b|.
\* For integers a, b in units of 0.001 the comparison with the rational
\* bound atol + |b|/100000 is the comparison with its floor.
IsCloseScalar(a, b) == Abs(a - b) <= Atol + (Abs(b) \div RtolInverse)

\* The operand as numpy sees it: a sequence of numbers (a scalar has one).
AsArray(v) == IF v.kind = "num" THEN <<v.val>> ELSE v.val

\* Broadcasting of two 1-D operands of lengths 1 or n.
Broadcast(s, n) == IF Len(s) = n THEN s ELSE [i \in 1..n |-> s[1]]

\* np.isclose(expected, actual, atol=0.01):
\*   a mapping or None operand becomes an object array, on which the
\*   arithmetic/isfinite ufuncs raise TypeError;
\*   two scalars give one boolean; a list operand gives an array of booleans,
\*   one per component; lengths that do not broadcast raise ValueError.
isclose(expected, actual) ==
    IF expected.kind \notin {"num", "list"} \/ actual.kind \notin {"num", "list"}
    THEN Raises("TypeError")
    ELSE IF expected.kind = "num" /\ actual.kind = "num"
    THEN Returns(Bool(IsCloseScalar(expected.val, actual.val)))
    ELSE LET x == AsArray(expected)
             y == AsArray(actual)
             n == IF Len(x) > Len(y) THEN Len(x) ELSE Len(y)
         IN  IF (Len(x) \notin {1, n}) \/ (Len(y) \notin {1, n})
             THEN Raises("ValueError")
             ELSE Returns(PyVal("boolarray",
                     [i \in 1..n |-> IsCloseScalar(Broadcast(x, n)[i], Broadcast(y, n)[i])]))

\* `if result:` on the value np.isclose returned: the truth value of an array
\* with more than one element is ambiguous (ValueError); of an empty array it
\* is False; a single element gives its value.
Truth(r) ==
    IF r.kind = "bool" THEN Returns(r)
    ELSE IF Len(r.val) > 1 THEN Raises("ValueError")
    ELSE IF Len(r.val) = 1 THEN Returns(Bool(r.val[1]))
    ELSE Returns(Bool(FALSE))

\* The body shared by test_position, test_std and test_dispersion:
\* result = np.isclose(...); if result: print(...) else: print(...); return result
TestBody(expected, actual) ==
    LET r == isclose(expected, actual)
    IN  IF r.raised # "none" THEN r
        ELSE IF Truth(r.value).raised # "none" THEN Truth(r.value)
        ELSE r

test_position(expected, actual) == TestBody(expected, actual)
test_std(expected, actual) == TestBody(expected, actual)
test_dispersion(expected, actual) == TestBody(expected, actual)

-----------------------------------------------------------------------------
(* Files the program reads *)

\* The content of a file as the program's reader sees it.
Absent == PyVal("absent", 0)
Malformed == PyVal("malformed", 0)
Yaml(doc) == PyVal("yaml", doc)

Groups == {"position", "std", "dispersion"}

\* The value of a group written in the config file, in one of three shapes:
\* "nested" is the shape of the end-to-end scenario, "flat" is the shape of
\* the actual values process_image reports, "null" is a key with no value.
GroupValue(g, shape) ==
    IF shape = "null" THEN None
    ELSE IF g = "position"
    THEN (IF shape = "nested"
          THEN Dict([x |-> Num(10000), y |-> Num(10000)])
          ELSE List(<<10000, 10000>>))
    ELSE IF g = "std"
    THEN (IF shape = "nested" THEN Dict([value |-> Num(12000)]) ELSE Num(12000))
    ELSE (IF shape = "nested" THEN Dict([value |-> Num(144000)]) ELSE Num(144000))

Shapes == {"nested", "flat", "null"}

\* A top-level mapping that gives the groups in S, each in the shape f[g].
MappingDoc(f) == Dict([g \in DOMAIN f |-> GroupValue(g, f[g])])

\* position: {x: 10, y: 10} / std: {value: 12.0} / dispersion: {value: 144.0}
E2EConfig == MappingDoc([g \in Groups |-> "nested"])

\* Every well-formed document: mappings leaving out any subset of the
\* groups, the empty document (safe_load gives None), a top-level scalar and
\* a top-level sequence.
MappingDocs == {MappingDoc(f) : f \in UNION {[S -> Shapes] : S \in SUBSET Groups}}
WellFormedDocs == MappingDocs \cup {None, Num(5000), List(<<10000, 10000>>)}

ConfigFiles == {Yaml(d) : d \in WellFormedDocs} \cup {Absent, Malformed}

\* The config files of the image-processing scenarios.
FewConfigFiles == {Yaml(E2EConfig), Yaml(EmptyDict), Yaml(None)}

-----------------------------------------------------------------------------
(* ConfigLoader *)

\* load_config: open() the path, yaml.safe_load it, and .get() each group
\* with default {} from whatever safe_load returned.
load_config(file) ==
    IF file.kind = "absent" THEN Raises("FileNotFoundError")
    ELSE IF file.kind = "malformed" THEN Raises("YAMLError")
    ELSE LET config_data == file.val
         IN  IF config_data.kind # "dict" THEN Raises("AttributeError")
             ELSE Returns(Dict([g \in Groups |-> DictGet(config_data, g, EmptyDict)]))

\* get_config: return self.config
get_config(self) ==
    IF self.config = Unset THEN Raises("AttributeError") ELSE Returns(self.config)

-----------------------------------------------------------------------------
(* Images *)

\* BGR pixels
Black == <<0, 0, 0>>
White == <<255, 255, 255>>
Blue == <<255, 0, 0>>
Grey24 == <<24, 24, 24>>

Palette == {Black, White}
SpotColours == {Blue, Grey24}

\* A decoded image: rows of BGR pixels, shape (h, w, 3).
NdArray(rows) == PyVal("ndarray", rows)
Height(rows) == Len(rows)
Width(rows) == Len(rows[1])

Shapes2D == (1..MaxH) \X (1..MaxW)

\* Every image over Palette, of every shape within the bounds.
PaletteImages ==
    UNION {[1..s[1] -> [1..s[2] -> Palette]] : s \in Shapes2D}

\* One pixel of colour c at column x0, row y0 (0-based), black elsewhere.
SpotImage(h, w, x0, y0, c) ==
    [r \in 1..h |-> [k \in 1..w |-> IF r = y0 + 1 /\ k = x0 + 1 THEN c ELSE Black]]

\* (A position outside the shape gives the all-black image.)
SpotImages ==
    {SpotImage(s[1], s[2], x0, y0, c) :
        s \in Shapes2D, x0 \in 0..(MaxW - 1), y0 \in 0..(MaxH - 1), c \in SpotColours}

\* The image of the end-to-end scenario: 22 columns by 21 rows, even columns
\* of intensity 24 and odd columns black: centroid (10, 10), variance 144.
E2EImage == [r \in 1..21 |-> [k \in 1..22 |-> IF (k - 1) % 2 = 0 THEN Grey24 ELSE Black]]

\* What cv2.imread returns for the file: None when it cannot be read or
\* decoded, otherwise a 3-channel array (the default flag is IMREAD_COLOR).
ImageFiles == {None} \cup {NdArray(i) : i \in PaletteImages \cup SpotImages \cup {E2EImage}}

\* cv2.cvtColor(image, COLOR_BGR2GRAY) on 8-bit samples: the fixed-point
\* luma 0.114 B + 0.587 G + 0.299 R, rounded.
GrayPixel(p) == (p[1] * 3735 + p[2] * 19235 + p[3] * 9798 + 16384) \div 32768
cvtColor(rows) == [r \in 1..Height(rows) |-> [k \in 1..Width(rows) |-> GrayPixel(rows[r][k])]]

RECURSIVE SumSeq(_)
SumSeq(s) == IF Len(s) = 0 THEN 0 ELSE s[Len(s)] + SumSeq(SubSeq(s, 1, Len(s) - 1))

\* cv2.moments(gray_image): the raw moments up to first order.
moments(gray) ==
    [m00 |-> SumSeq([r \in 1..Height(gray) |-> SumSeq(gray[r])]),
     m10 |-> SumSeq([r \in 1..Height(gray) |->
                 SumSeq([k \in 1..Width(gray) |-> (k - 1) * gray[r][k]])]),
     m01 |-> SumSeq([r \in 1..Height(gray) |-> (r - 1) * SumSeq(gray[r])])]

\* int(moments["m10"] / moments["m00"]): float division of two exactly
\* represented integers, truncated; the operands are non-negative, so the
\* truncation is the integer quotient. m00 = 0 raises ZeroDivisionError.
x_center_swapped(m) == m.m01 \div m.m00
x_center(m) == m.m10 \div m.m00
y_center(m) == m.m01 \div m.m00

\* Largest b in lo..hi with P(b), P downward closed and P(lo) true.
RECURSIVE LargestBelow(_, _, _, _, _)
LargestBelow(lo, hi, a, whole, frac6) ==
    IF lo = hi THEN lo
    ELSE LET mid == (lo + hi + 1) \div 2
         IN  IF 2000 * a * mid + mid * mid <= 1000000 * (whole - a * a) + frac6
             THEN LargestBelow(mid, hi, a, whole, frac6)
             ELSE LargestBelow(lo, mid - 1, a, whole, frac6)

\* np.var(gray_image): the population variance, (N * S2 - S1^2) / N^2 with
\* S1 the sum and S2 the sum of squares of the N samples, in units of 0.001
\* (rounded down).
VarNum(gray) ==
    LET n == Height(gray) * Width(gray)
        s1 == SumSeq([r \in 1..Height(gray) |-> SumSeq(gray[r])])
        s2 == SumSeq([r \in 1..Height(gray) |->
                  SumSeq([k \in 1..Width(gray) |-> gray[r][k] * gray[r][k]])])
    IN  n * s2 - s1 * s1
VarDen(gray) == (Height(gray) * Width(gray)) * (Height(gray) * Width(gray))

np_var(gray) ==
    LET num == VarNum(gray)
        den == VarDen(gray)
    IN  (num \div den) * 1000 + ((num % den) * 1000) \div den

\* np.std(gray_image): the square root of the variance, in units of 0.001
\* (rounded down): 1000 a + b with a the integer part of the root.
np_std(gray) ==
    LET num == VarNum(gray)
        den == VarDen(gray)
        whole == num \div den
        f3 == ((num % den) * 1000) \div den
        r3 == ((num % den) * 1000) % den
        frac6 == f3 * 1000 + (r3 * 1000) \div den
        a == CHOOSE i \in 0..128 : i * i <= whole /\ whole < (i + 1) * (i + 1)
    IN  1000 * a + LargestBelow(0, 999, a, whole, frac6)

\* np.sum(gray_image, axis=0): one entry per column, the sum over the rows.
\* The accumulator of a uint8 array is the platform's unsigned integer, far
\* wider than any sum here.
np_sum_axis0_uint8(gray) ==
    [k \in 1..Width(gray) |-> SumSeq([r \in 1..Height(gray) |-> gray[r][k]]) % 256]
np_sum_axis0(gray) ==
    [k \in 1..Width(gray) |-> SumSeq([r \in 1..Height(gray) |-> gray[r][k]])]

\* np.sum(gray_image, axis=1): one entry per row, the sum over the columns.
np_sum_axis1(gray) ==
    [r \in 1..Height(gray) |-> SumSeq(gray[r])]

\* The files np.savetxt writes, in order.
savetxt_files_x_only == {"projection_x.txt"}
savetxt_files == {"projection_x.txt", "projection_y.txt"}

\* gray_image = cvtColor(image) if len(image.shape) == 3 else image.
\* imread's arrays always have three axes.
gray_image(image) == cvtColor(image.val)

\* process_image on a processor `self` whose config loader is `loader`:
\* the outcome, the files written on the way and their contents.
process_image(self, loader) ==
    IF self.image = Unset
    THEN [raised |-> "AttributeError", value |-> None, wrote |-> {}, projections |-> <<>>]
    ELSE IF self.config_loader = Unset \/ get_config(loader).raised # "none"
    THEN [raised |-> "AttributeError", value |-> None, wrote |-> {}, projections |-> <<>>]
    ELSE LET gray == gray_image(self.image)
             config == get_config(loader).value
             m == moments(gray)
         IN  IF m.m00 = 0
             THEN [raised |-> "ZeroDivisionError", value |-> None, wrote |-> {},
                   projections |-> <<>>]
             ELSE [raised |-> "none",
                   value |-> Dict(
                     [position |-> Dict([expected |-> config.val["position"],
                                         actual |-> List(<<1000 * x_center(m),
                                                           1000 * y_center(m)>>)]),
                      std |-> Dict([expected |-> config.val["std"],
                                    actual |-> Num(np_std(gray))]),
                      dispersion |-> Dict([expected |-> config.val["dispersion"],
                                           actual |-> Num(np_var(gray))])]),
                   wrote |-> savetxt_files,
                   projections |-> <<np_sum_axis0(gray), np_sum_axis1(gray)>>]

-----------------------------------------------------------------------------
(* State *)

VARIABLES
    configFile,        \* the content of Input.yml
    imageFile,         \* what cv2.imread gives for image.jpg
    pc,                \* the script's position, or "imported" when the module is imported
    exc,               \* the exception that ended the script, or "none"
    steps,             \* the steps of the script completed so far, in order
    results,           \* the variable `results`
    config_loader,     \* the ConfigLoader object's attributes
    image_processor,   \* the ImageProcessor object's attributes
    disk,              \* the output files written so far
    call               \* the last call made on the classes, and its outcome

vars == <<configFile, imageFile, pc, exc, steps, results, config_loader,
          image_processor, disk, call>>

Str(s) == PyVal("str", s)

\* The classes that define __init__ (ConfigLoader, ImageProcessor and
\* JSONDataSaver define a method named `init` instead).
DefinesDunderInit == {"DatabaseManager"}

\* cls(args...): without an __init__ of its own the class inherits
\* object's, which accepts no arguments.
Construct(cls, nargs) ==
    IF cls \notin DefinesDunderInit /\ nargs > 0
    THEN Raises("TypeError")
    ELSE Returns(PyVal("object", cls))

\* An object right after cls(): no attribute assigned yet.
NewConfigLoader == [config_path |-> Unset, config |-> Unset]
NewImageProcessor == [image_path |-> Unset, config_loader |-> Unset, image |-> Unset]

NoCall == [op |-> "none", args |-> <<>>, raised |-> "none", value |-> None,
           wrote |-> {}, projections |-> <<>>]
Called(op, args, r) == [op |-> op, args |-> args, raised |-> r.raised, value |-> r.value,
                        wrote |-> {}, projections |-> <<>>]

InitObjects ==
    /\ exc = "none"
    /\ steps = <<>>
    /\ results = Unset
    /\ config_loader = NewConfigLoader
    /\ image_processor = NewImageProcessor
    /\ disk = {}
    /\ call = NoCall

-----------------------------------------------------------------------------
(* The script: python Light_spot_analysis.py *)

\* The steps of a complete run, in order.
AllSteps == <<"config", "image", "statistics", "compare", "json", "database">>

InitMain ==
    /\ configFile \in ConfigFiles
    /\ imageFile \in ImageFiles
    /\ pc = "line135"
    /\ InitObjects

\* config_loader = ConfigLoader(config_path). The call raises TypeError, which
\* nothing catches: the script ends there. Lines 136-157 follow only a
\* construction that returns.
Main_ConfigLoader ==
    /\ pc = "line135"
    /\ LET r == Construct("ConfigLoader", 1)
       IN  IF r.raised # "none"
           THEN pc' = "exited" /\ exc' = r.raised /\ steps' = steps
           ELSE pc' = "line136" /\ exc' = exc /\ steps' = Append(steps, "config")
    /\ UNCHANGED <<configFile, imageFile, results, config_loader,
                   image_processor, disk, call>>

NextMain == Main_ConfigLoader

SpecMain == InitMain /\ [][NextMain]_vars

-----------------------------------------------------------------------------
(* The classes, used by a caller that imports the module *)

\* ConfigLoader.init(self, config_path): the path is stored, then load_config
\* runs; when it raises, self.config is not assigned.
ConfigLoader_init ==
    /\ pc = "imported"
    /\ LET r == load_config(configFile)
       IN  /\ config_loader' = [config_path |-> Str("Input.yml"),
                                config |-> IF r.raised = "none" THEN r.value
                                           ELSE config_loader.config]
           /\ call' = Called("ConfigLoader.init", <<>>, Raises(r.raised))
    /\ UNCHANGED <<configFile, imageFile, pc, exc, steps, results, image_processor, disk>>

\* config_loader.get_config()
Call_get_config ==
    /\ pc = "imported"
    /\ call' = Called("get_config", <<>>, get_config(config_loader))
    /\ UNCHANGED <<configFile, imageFile, pc, exc, steps, results, config_loader,
                   image_processor, disk>>

\* load_image: cv2.imread, and FileNotFoundError when it gave None.
load_image(file) ==
    IF file = None THEN Raises("FileNotFoundError") ELSE Returns(file)

\* ImageProcessor.init(self, image_path, config_loader): both arguments are
\* stored, then load_image runs; when it raises, self.image is not assigned.
ImageProcessor_init ==
    /\ pc = "imported"
    /\ LET r == load_image(imageFile)
       IN  /\ image_processor' = [image_path |-> Str("image.jpg"),
                                  config_loader |-> PyVal("object", "ConfigLoader"),
                                  image |-> IF r.raised = "none" THEN r.value
                                            ELSE image_processor.image]
           /\ call' = Called("ImageProcessor.init", <<>>, Raises(r.raised))
    /\ UNCHANGED <<configFile, imageFile, pc, exc, steps, results, config_loader, disk>>

\* results = image_processor.process_image()
Call_process_image ==
    /\ pc = "imported"
    /\ LET r == process_image(image_processor, config_loader)
       IN  /\ results' = IF r.raised = "none" THEN r.value ELSE results
           /\ disk' = disk \cup r.wrote
           /\ call' = [op |-> "process_image", args |-> <<>>, raised |-> r.raised,
                       value |-> r.value, wrote |-> r.wrote,
                       projections |-> r.projections]
    /\ UNCHANGED <<configFile, imageFile, pc, exc, steps, config_loader, image_processor>>

InitConfig ==
    /\ configFile \in ConfigFiles
    /\ imageFile = None
    /\ pc = "imported"
    /\ InitObjects

NextConfig == ConfigLoader_init \/ Call_get_config

SpecConfig == InitConfig /\ [][NextConfig]_vars

InitImage ==
    /\ configFile \in FewConfigFiles
    /\ imageFile \in ImageFiles
    /\ pc = "imported"
    /\ InitObjects

NextImage == ConfigLoader_init \/ ImageProcessor_init \/ Call_process_image

SpecImage == InitImage /\ [][NextImage]_vars

\* The tests are pure: each behaviour makes one call, on one pair of values.
\* The values the tests are called with: scalars, two- and three-component
\* sequences, mappings and None.
CompareNumbers == {0, 5000, 5005, 5010, 5011, 5020, 12000, 144000, 1000000, 1000015, 1000025}
CompareValues ==
    {Num(n) : n \in CompareNumbers}
    \cup {List(<<10000, 10000>>), List(<<10000, 10005>>), List(<<10000, 12000>>),
          List(<<12000, 10000>>), List(<<1000, 2000, 3000>>)}
    \cup {Dict([x |-> Num(10000), y |-> Num(10000)]), Dict([value |-> Num(12000)]),
          EmptyDict, None}

Call_test_position ==
    /\ pc = "imported"
    /\ call = NoCall
    /\ \E e \in CompareValues, a \in CompareValues :
          call' = Called("test_position", <<e, a>>, test_position(e, a))
    /\ UNCHANGED <<configFile, imageFile, pc, exc, steps, results, config_loader,
                   image_processor, disk>>

Call_test_std ==
    /\ pc = "imported"
    /\ call = NoCall
    /\ \E e \in CompareValues, a \in CompareValues :
          call' = Called("test_std", <<e, a>>, test_std(e, a))
    /\ UNCHANGED <<configFile, imageFile, pc, exc, steps, results, config_loader,
                   image_processor, disk>>

Call_test_dispersion ==
    /\ pc = "imported"
    /\ call = NoCall
    /\ \E e \in CompareValues, a \in CompareValues :
          call' = Called("test_dispersion", <<e, a>>, test_dispersion(e, a))
    /\ UNCHANGED <<configFile, imageFile, pc, exc, steps, results, config_loader,
                   image_processor, disk>>

InitCompare ==
    /\ configFile = Absent
    /\ imageFile = None
    /\ pc = "imported"
    /\ InitObjects

NextCompare == Call_test_position \/ Call_test_std \/ Call_test_dispersion

SpecCompare == InitCompare /\ [][NextCompare]_vars

-----------------------------------------------------------------------------
(* Properties of the script *)

ReadableConfig == configFile.kind = "yaml" /\ configFile.val.kind = "dict"
Mass(image) == moments(gray_image(image)).m00
NonBlackImage == imageFile # None /\ Mass(imageFile) > 0
StepDone(name) == \E i \in 1..Len(steps) : steps[i] = name

\* C1: with a readable config file and a decodable non-black image, a run
\* of the script is one linear pass: when it has ended, it ended without an
\* exception and the six steps config, image, statistics, compare, json and
\* database have each happened once, in this order.
C1_LinearPass ==
    (pc = "exited" /\ ReadableConfig /\ NonBlackImage)
        => (exc = "none" /\ steps = AllSteps)

AllTestsTrue ==
    Dict([position_test |-> Bool(TRUE), std_test |-> Bool(TRUE),
          dispersion_test |-> Bool(TRUE)])

\* C3: with the config {position:{x:10,y:10}, std:{value:12.0},
\* dispersion:{value:144.0}} and the image of centroid (10,10), standard
\* deviation 12.0 and variance 144.0, the run reaches the JSON sink with
\* results['tests'] = {position_test, std_test, dispersion_test: true}.
C3_EndToEnd ==
    (pc = "exited" /\ configFile = Yaml(E2EConfig) /\ imageFile = NdArray(E2EImage))
        => /\ StepDone("json")
           /\ results.kind = "dict"
           /\ "tests" \in DOMAIN results.val
           /\ results.val["tests"] = AllTestsTrue

\* C7: when the image cannot be located or decoded, the run ends in the
\* image-loading step with the not-found error, and no statistics are
\* computed, no projection file is written, no comparison is made and no
\* sink is invoked.
C7_ImageNotFoundFatal ==
    (pc = "exited" /\ ReadableConfig /\ imageFile = None)
        => /\ exc = "FileNotFoundError"
           /\ steps = <<"config">>
           /\ results = Unset
           /\ disk = {}

-----------------------------------------------------------------------------
(* Properties of ConfigLoader *)

\* The mapping the claim expects for a document: each group the document
\* gives with its parsed value, each group it leaves out as {}.
ExpectedConfig(doc) ==
    Dict([g \in Groups |->
        IF doc.kind = "dict" /\ g \in DOMAIN doc.val THEN doc.val[g] ELSE EmptyDict])

\* C8: for every well-formed config file, whatever groups it leaves out (the
\* empty document leaves out all three), loading does not fail, the config
\* has exactly the keys position, std and dispersion, a present group with
\* its parsed value and a missing group as the empty mapping, and get_config
\* returns that mapping.
C8_MissingGroupsDefault ==
    (call.op = "ConfigLoader.init" /\ configFile.kind = "yaml"
        /\ configFile.val.kind \in {"dict", "None"})
        => /\ call.raised = "none"
           /\ config_loader.config = ExpectedConfig(configFile.val)
           /\ get_config(config_loader) = Returns(ExpectedConfig(configFile.val))

-----------------------------------------------------------------------------
(* Properties of TestManager *)

IsScalarCall == call.args[1].kind = "num" /\ call.args[2].kind = "num"

\* C4: for scalars, test_std and test_dispersion return true exactly when
\* |expected - actual| <= 0.01, whatever the magnitude of the values.
C4_AbsoluteTolerance ==
    (call.op \in {"test_std", "test_dispersion"} /\ IsScalarCall)
        => /\ call.raised = "none"
           /\ call.value = Bool(Abs(call.args[1].val - call.args[2].val) <= Atol)

IsPair(v) == v.kind = "list" /\ Len(v.val) = 2

\* C5: for a two-component expected and actual position, test_position
\* returns one boolean, true exactly when the x check and the y check both
\* hold, and never ends in an error.
C5_PositionBothComponents ==
    (call.op = "test_position" /\ IsPair(call.args[1]) /\ IsPair(call.args[2]))
        => /\ call.raised = "none"
           /\ call.value =
                Bool(/\ Abs(call.args[1].val[1] - call.args[2].val[1]) <= Atol
                     /\ Abs(call.args[1].val[2] - call.args[2].val[2]) <= Atol)

-----------------------------------------------------------------------------
(* Properties of ImageProcessor.process_image *)

ProjectionFiles == {"projection_x.txt", "projection_y.txt"}

\* process_image was called on a processor holding an image, whose config
\* loader holds a config.
ProcessedLoaded ==
    /\ call.op = "process_image"
    /\ image_processor.image # Unset
    /\ config_loader.config # Unset

\* The grayscale image process_image worked on.
Gray == gray_image(image_processor.image)

\* C6 as stated: every call of process_image on a loaded image, the
\* all-black one included, ends with both projection files written.
C6_ProjectionsAlwaysWritten ==
    ProcessedLoaded => (call.wrote = ProjectionFiles /\ ProjectionFiles \subseteq disk)

\* C6 as amended: every call of process_image on a loaded image of non-zero
\* total intensity returns with both projection files written; on an
\* all-black image the call ends in the division by zero and writes neither.
C6_ProjectionsWrittenUnlessBlack ==
    ProcessedLoaded =>
        IF Mass(image_processor.image) > 0
        THEN /\ call.raised = "none"
             /\ call.wrote = ProjectionFiles
             /\ ProjectionFiles \subseteq disk
        ELSE /\ call.raised = "ZeroDivisionError"
             /\ call.wrote = {}

\* A call on a non-black image has returned and both files are on disk.
C6_Witness ==
    /\ ProcessedLoaded
    /\ Mass(image_processor.image) > 0
    /\ call.raised = "none"
    /\ disk = ProjectionFiles

\* The pixel at column x0, row y0 (0-based) is the only one of non-zero
\* intensity.
SingleBright(gray, x0, y0) ==
    \A r \in 1..Height(gray), k \in 1..Width(gray) :
        (gray[r][k] > 0) <=> (r = y0 + 1 /\ k = x0 + 1)

\* C9: for an image with a single pixel of non-zero intensity at column x0,
\* row y0 and zero intensity elsewhere, process_image reports the actual
\* position [x0, y0].
C9_SinglePixelCentroid ==
    ProcessedLoaded =>
        \A y0 \in 0..(Height(Gray) - 1), x0 \in 0..(Width(Gray) - 1) :
            SingleBright(Gray, x0, y0) =>
                /\ call.raised = "none"
                /\ call.value.val["position"].val["actual"]
                      = List(<<1000 * x0, 1000 * y0>>)

\* A single bright pixel off the diagonal (column 1, row 0) was processed.
C9_Witness ==
    /\ ProcessedLoaded
    /\ Width(Gray) >= 2
    /\ SingleBright(Gray, 1, 0)
    /\ call.value.val["position"].val["actual"] = List(<<1000, 0>>)

\* The sum of the intensities of column k over rows 1..r, and of row r over
\* columns 1..k.
RECURSIVE ColumnTotal(_, _, _)
ColumnTotal(gray, k, r) == IF r = 0 THEN 0 ELSE gray[r][k] + ColumnTotal(gray, k, r - 1)
RECURSIVE RowTotal(_, _, _)
RowTotal(gray, r, k) == IF k = 0 THEN 0 ELSE gray[r][k] + RowTotal(gray, r, k - 1)

\* C10: the column projection has one entry per column, the row projection
\* one entry per row, each entry is the exact sum of the intensities of its
\* column or row, and the two projections have the same sum, the total
\* intensity mass m00.
C10_Projections ==
    (ProcessedLoaded /\ call.raised = "none") =>
        LET px == call.projections[1]
            py == call.projections[2]
        IN  /\ Len(px) = Width(Gray)
            /\ Len(py) = Height(Gray)
            /\ \A k \in 1..Width(Gray) : px[k] = ColumnTotal(Gray, k, Height(Gray))
            /\ \A r \in 1..Height(Gray) : py[r] = RowTotal(Gray, r, Width(Gray))
            /\ SumSeq(px) = SumSeq(py)
            /\ SumSeq(px) = moments(Gray).m00

\* A projection entry above 255 (two samples of 255 in one column) and an
\* image that is not square were processed.
C10_Witness ==
    /\ ProcessedLoaded
    /\ call.raised = "none"
    /\ \E k \in 1..Len(call.projections[1]) : call.projections[1][k] > 255
    /\ Len(call.projections[1]) = 2

====
